---- MODULE Spec2Model ----
(***************************************************************************)
(* Session state machine of the UndercoverAI server: the GameManager of    *)
(* server/src/gameManager.ts (one room's GameState and the methods that    *)
(* act on it), driven through its public methods.                          *)
(*                                                                         *)
(* The GameManager class under src/ has no alive roster, turn order or     *)
(* cycle counter; its tests (same file, from line 595) and its caller      *)
(* (server/src/index.ts) use them.  Those fields and the methods that only *)
(* the tests and the caller show (isPlayerAlive, getCurrentTurnPlayerId,   *)
(* advanceDescriptionTurn, startNewCycle, the outcome branch at the end of *)
(* calculateVotingResults) are modelled from the specification and the     *)
(* tests; every method that is present under src/ is modelled from its     *)
(* code.                                                                   *)
(***************************************************************************)
EXTENDS Naturals, Integers, Sequences, FiniteSets, TLC

VARIABLES
    game,           \* the GameState of the room, or NoGame when games has no entry
    ret,            \* the last call or event: what it returned and what it sent out
    pending,        \* the awaited AI generations and the armed timers of the room
    unpublished,    \* the seats whose recorded vote no voting-results has shown
    messages,       \* discussionMessagesByRoom of the room: the senders, in order
    rooms,          \* RoomManager.rooms: room code -> Room
    playerToRoom    \* RoomManager.playerToRoom: socket id -> room code

vars == <<game, ret, pending, unpublished, messages, rooms, playerToRoom>>

\* what a GameManager call leaves alone
serverVars == <<pending, unpublished, messages, rooms, playerToRoom>>

roomVars == <<rooms, playerToRoom>>

----------------------------------------------------------------------------
(* Bounds *)

\* new cycles are started while cycleNumber < MaxCycle
MaxCycle == 3

\* how far from position i the shuffle's random index j may fall
MaxSwap == 1

\* the socket handlers start new cycles while cycleNumber < EventMaxCycle
EventMaxCycle == 2

----------------------------------------------------------------------------
(* Identities and enumerations *)

AI_PLAYER_ID == "AI_PLAYER"

\* the three socket ids handed to startGame (humanPlayers.length === 3)
HumanIds == {"p1", "p2", "p3"}

\* game.players: the four seats, in Map insertion order
PlayerIds == HumanIds \cup {AI_PLAYER_ID}

PlayerOrder == <<"p1", "p2", "p3", AI_PLAYER_ID>>

\* an id that is no key of game.players
UnknownId == "nonexistent"

CallerIds == PlayerIds \cup {UnknownId}

CIVILIAN == "Civilian"

UNDERCOVER == "Undercover"

CIVILIAN_WORD == "Coffee"

UNDERCOVER_WORD == "Tea"

DESCRIPTION == "description"

DISCUSSION == "discussion"

VOTING == "voting"

RESULTS == "results"

AI_GUESS == "ai_guess"

FINAL_RESULTS == "final_results"

\* description texts a caller submits
Texts == {"warm drink"}

\* '' (an unset description or vote target), undefined / null
Empty == ""

Null == "null"

----------------------------------------------------------------------------
(* Helpers *)

Max(a, b) == IF a >= b THEN a ELSE b

Range(f) == {f[i] : i \in DOMAIN f}

swap(a, i, j) == [a EXCEPT ![i] = a[j], ![j] = a[i]]

\* the loop of shuffleArray from position i down (1-based here): result[i] is
\* swapped with result[j], j drawn by Math.random from the positions up to i
\* (here: from the d positions next to i, and i itself)
RECURSIVE fisherYates(_, _, _)
fisherYates(result, i, d) ==
    IF i <= 1 THEN {result}
    ELSE UNION {fisherYates(swap(result, i, j), i - 1, d) : j \in Max(1, i - d)..i}

\* shuffleArray(array): the arrays the Fisher-Yates shuffle can return when
\* every random index falls within d positions of i
shuffleArray(array, d) == fisherYates(array, Len(array), d)

\* RoleDeals with the AI reading roles[0] instead of roles[3]
RoleDealsAiReadsFirst ==
    {[p \in PlayerIds |-> IF p = AI_PLAYER_ID THEN roles[1]
                          ELSE roles[CHOOSE i \in 1..Len(PlayerOrder) : PlayerOrder[i] = p]] :
        roles \in shuffleArray(<<CIVILIAN, CIVILIAN, CIVILIAN, UNDERCOVER>>, MaxSwap)}

\* shuffleArray([CIVILIAN, CIVILIAN, CIVILIAN, UNDERCOVER]) dealt to the seats:
\* roles[index] to the humans in room order, roles[3] to the AI
RoleDeals ==
    {[p \in PlayerIds |-> roles[CHOOSE i \in 1..Len(PlayerOrder) : PlayerOrder[i] = p]] :
        roles \in shuffleArray(<<CIVILIAN, CIVILIAN, CIVILIAN, UNDERCOVER>>, MaxSwap)}

WordOf(role) == IF role = CIVILIAN THEN CIVILIAN_WORD ELSE UNDERCOVER_WORD

NoGame == [exists |-> FALSE]

\* nothing sent: no per-seat view (viewTo), no payload that names the AI seat,
\* no payload that lists the players with role and word (allPlayers)
NoRet ==
    [op |-> "none", ok |-> FALSE, outcome |-> Null, eliminated |-> Null,
     civiliansWon |-> FALSE, viewTo |-> {}, showResults |-> FALSE, aiPlayer |-> Null, error |-> Null,
     allPlayers |-> {}]

Ret(op, ok) == [NoRet EXCEPT !.op = op, !.ok = ok]

----------------------------------------------------------------------------
(* GameManager methods, as functions of the GameState *)

\* the fields the tests read right after startGame: all four seats alive,
\* cycle 1, a turn order over the alive seats, turn index 0
InitialCycleState(order) ==
    [alivePlayerIds |-> PlayerOrder,
     cycleNumber |-> 1,
     descriptionTurnOrder |-> order,
     descriptionTurnIndex |-> 0]

\* startGame(roomCode, humanPlayers) with three human players: the GameState it
\* stores under roomCode (replacing any earlier one).  roles is the shuffled
\* role array as dealt to the seats, order the first shuffled turn order.
startGame(roles, order) ==
    [exists |-> TRUE,
     phase |-> DESCRIPTION,
     role |-> roles,
     word |-> [p \in PlayerIds |-> WordOf(roles[p])],
     description |-> [p \in PlayerIds |-> Empty],
     voteTarget |-> [p \in PlayerIds |-> Empty],
     hasSubmittedDescription |-> [p \in PlayerIds |-> FALSE],
     hasVoted |-> [p \in PlayerIds |-> FALSE],
     eliminatedPlayerId |-> Null,
     civiliansWon |-> FALSE,
     aiGuesses |-> [p \in CallerIds |-> Empty],
     aiGuessWinners |-> {}]
    @@ InitialCycleState(order)

aliveSet(g) == Range(g.alivePlayerIds)

isPlayerAlive(g, playerId) ==
    g.exists /\ playerId \in aliveSet(g)

getCurrentTurnPlayerId(g) ==
    IF g.exists /\ g.descriptionTurnIndex < Len(g.descriptionTurnOrder)
    THEN g.descriptionTurnOrder[g.descriptionTurnIndex + 1]
    ELSE Null

\* getDescriptionsSoFar: the descriptions of this cycle in turn order, one
\* entry for each seat of the order that has submitted
getDescriptionsSoFar(g) ==
    IF ~g.exists THEN <<>>
    ELSE LET seats == SelectSeq(g.descriptionTurnOrder,
                                LAMBDA p : g.hasSubmittedDescription[p])
         IN [i \in 1..Len(seats) |->
                [playerId |-> seats[i], description |-> g.description[seats[i]]]]

\* advanceDescriptionTurn stepping over the seat that follows
advanceDescriptionTurnSkips(g) ==
    IF g.exists /\ g.descriptionTurnIndex < Len(g.descriptionTurnOrder)
    THEN [g EXCEPT !.descriptionTurnIndex = @ + 2]
    ELSE g

\* advanceDescriptionTurn: move to the next seat of the order; the caller reads
\* the new current seat (Null once the order is exhausted)
advanceDescriptionTurn(g) ==
    IF g.exists /\ g.descriptionTurnIndex < Len(g.descriptionTurnOrder)
    THEN [g EXCEPT !.descriptionTurnIndex = @ + 1]
    ELSE g

\* submitDescription: [g |-> the state after the call, ok |-> its return value]
submitDescription(g, playerId, description) ==
    IF ~g.exists \/ g.phase # DESCRIPTION THEN [g |-> g, ok |-> FALSE]
    ELSE IF playerId \notin PlayerIds THEN [g |-> g, ok |-> FALSE]
    ELSE [g |-> [g EXCEPT !.description[playerId] = description,
                          !.hasSubmittedDescription[playerId] = TRUE],
          ok |-> TRUE]

\* submitVote writing the vote before it checks the phase
submitVoteWritesFirst(g, playerId, voteTarget) ==
    IF ~g.exists \/ playerId \notin PlayerIds THEN [g |-> g, ok |-> FALSE]
    ELSE [g |-> [g EXCEPT !.voteTarget[playerId] = voteTarget,
                          !.hasVoted[playerId] = TRUE],
          ok |-> g.phase = VOTING]

submitVote(g, playerId, voteTarget) ==
    IF ~g.exists \/ g.phase # VOTING THEN [g |-> g, ok |-> FALSE]
    ELSE IF playerId \notin PlayerIds THEN [g |-> g, ok |-> FALSE]
    ELSE [g |-> [g EXCEPT !.voteTarget[playerId] = voteTarget,
                          !.hasVoted[playerId] = TRUE],
          ok |-> TRUE]

allHumanVotesSubmitted(g) ==
    g.exists /\ \A p \in HumanIds : g.hasVoted[p]

advancePhase(g) ==
    IF ~g.exists THEN g
    ELSE CASE g.phase = DESCRIPTION -> [g EXCEPT !.phase = VOTING]
           [] g.phase = VOTING -> [g EXCEPT !.phase = RESULTS]
           [] g.phase = RESULTS -> [g EXCEPT !.phase = AI_GUESS]
           [] g.phase = AI_GUESS -> [g EXCEPT !.phase = FINAL_RESULTS]
           [] OTHER -> g

setPhase(g, phase) ==
    IF g.exists THEN [g EXCEPT !.phase = phase] ELSE g

submitAIGuess(g, playerId, guessedAIId) ==
    IF ~g.exists \/ g.phase # AI_GUESS THEN [g |-> g, ok |-> FALSE]
    ELSE [g |-> [g EXCEPT !.aiGuesses[playerId] = guessedAIId], ok |-> TRUE]

\* the humans that lost the vote: the Undercover if the civilians won, the
\* Civilians otherwise
losingHumans(g) ==
    {p \in HumanIds : g.role[p] = (IF g.civiliansWon THEN UNDERCOVER ELSE CIVILIAN)}

allAIGuessesSubmitted(g) ==
    g.exists /\ \A p \in losingHumans(g) : g.aiGuesses[p] # Empty

\* calculateFinalResults: the seats whose guess names the AI are the winners
calculateFinalResults(g) ==
    IF ~g.exists THEN g
    ELSE [g EXCEPT !.aiGuessWinners = {p \in PlayerIds : g.aiGuesses[p] = AI_PLAYER_ID}]

\* getPlayerView(roomCode, playerId, showResults): the filtered view, or
\* [exists |-> FALSE] for null
getPlayerView(g, playerId, showResults) ==
    IF ~g.exists \/ playerId \notin PlayerIds THEN [exists |-> FALSE]
    ELSE [exists |-> TRUE,
          phase |-> g.phase,
          myPlayerId |-> playerId,
          myRole |-> IF showResults THEN g.role[playerId] ELSE Null,
          myWord |-> g.word[playerId],
          players |-> [p \in PlayerIds |->
              [isAI |-> FALSE,
               description |-> g.description[p],
               hasSubmittedDescription |-> g.hasSubmittedDescription[p],
               hasVoted |-> g.hasVoted[p],
               voteTarget |-> IF showResults THEN g.voteTarget[p] ELSE Null,
               role |-> IF showResults THEN g.role[p] ELSE Null,
               word |-> IF showResults THEN g.word[p] ELSE Null]]]

\* the keys of voteCounts in Map insertion order: the targets of the first i
\* seats of game.players that hold a non-empty voteTarget, each once
RECURSIVE voteCountKeys(_, _)
voteCountKeys(g, i) ==
    IF i = 0 THEN <<>>
    ELSE LET keys == voteCountKeys(g, i - 1)
             t == g.voteTarget[PlayerOrder[i]]
         IN IF t = Empty \/ (\E k \in 1..Len(keys) : keys[k] = t)
            THEN keys
            ELSE Append(keys, t)

\* voteCounts.get(t)
voteCount(g, t) ==
    Cardinality({p \in PlayerIds : g.voteTarget[p] = t})

\* the loop "for (const [playerId, votes] of voteCounts) if (votes > maxVotes)":
\* scans keys from position k on, carrying maxVotes and eliminatedId
RECURSIVE findMostVoted(_, _, _, _, _)
findMostVoted(g, keys, k, maxVotes, eliminatedId) ==
    IF k > Len(keys) THEN eliminatedId
    ELSE IF voteCount(g, keys[k]) > maxVotes
         THEN findMostVoted(g, keys, k + 1, voteCount(g, keys[k]), keys[k])
         ELSE findMostVoted(g, keys, k + 1, maxVotes, eliminatedId)

\* eliminatedIdOf scanning the vote counts in the order of the shuffled turn
\* order instead of the insertion order of voteCounts
eliminatedIdOfByTurnOrder(g) ==
    findMostVoted(g, SelectSeq(g.descriptionTurnOrder, LAMBDA t : voteCount(g, t) > 0), 1, 0, Null)

\* eliminatedId of calculateVotingResults (Null when no vote was counted)
eliminatedIdOf(g) ==
    findMostVoted(g, voteCountKeys(g, Len(PlayerOrder)), 1, 0, Null)

\* startNewCycle keeping the turn order of the cycle before
startNewCycleKeepsOrder(g, order) ==
    [g EXCEPT
        !.phase = DESCRIPTION,
        !.description = [p \in PlayerIds |-> IF p \in aliveSet(g) THEN Empty ELSE @[p]],
        !.voteTarget = [p \in PlayerIds |-> IF p \in aliveSet(g) THEN Empty ELSE @[p]],
        !.hasSubmittedDescription = [p \in PlayerIds |-> IF p \in aliveSet(g) THEN FALSE ELSE @[p]],
        !.hasVoted = [p \in PlayerIds |-> IF p \in aliveSet(g) THEN FALSE ELSE @[p]],
        !.descriptionTurnIndex = 0,
        !.cycleNumber = @ + 1]

\* startNewCycle leaving the votes of the round before in place
startNewCycleKeepsVotes(g, order) ==
    [g EXCEPT
        !.phase = DESCRIPTION,
        !.description = [p \in PlayerIds |-> IF p \in aliveSet(g) THEN Empty ELSE @[p]],
        !.hasSubmittedDescription = [p \in PlayerIds |-> IF p \in aliveSet(g) THEN FALSE ELSE @[p]],
        !.descriptionTurnOrder = order,
        !.descriptionTurnIndex = 0,
        !.cycleNumber = @ + 1]

\* startNewCycle: the alive seats lose description, vote and flags, the turn
\* order is a fresh shuffle of the alive seats, the cycle number goes up by one
startNewCycle(g, order) ==
    [g EXCEPT
        !.phase = DESCRIPTION,
        !.description = [p \in PlayerIds |-> IF p \in aliveSet(g) THEN Empty ELSE @[p]],
        !.voteTarget = [p \in PlayerIds |-> IF p \in aliveSet(g) THEN Empty ELSE @[p]],
        !.hasSubmittedDescription = [p \in PlayerIds |-> IF p \in aliveSet(g) THEN FALSE ELSE @[p]],
        !.hasVoted = [p \in PlayerIds |-> IF p \in aliveSet(g) THEN FALSE ELSE @[p]],
        !.descriptionTurnOrder = order,
        !.descriptionTurnIndex = 0,
        !.cycleNumber = @ + 1]

\* aliveAfterVote rebuilding the roster from all four seats
aliveAfterVoteRevives(g, eliminatedId) ==
    IF eliminatedId \in PlayerIds /\ g.role[eliminatedId] = CIVILIAN
    THEN SelectSeq(PlayerOrder, LAMBDA id : id # eliminatedId)
    ELSE g.alivePlayerIds

\* aliveAfterVote leaving the roster as it was
aliveAfterVoteKeepsAll(g, eliminatedId) == g.alivePlayerIds

\* the alive roster once the vote is applied: a Civilian that was voted out
\* leaves it, an Undercover that was voted out stays listed (the game is over)
aliveAfterVote(g, eliminatedId) ==
    IF eliminatedId \in PlayerIds /\ g.role[eliminatedId] = CIVILIAN
    THEN SelectSeq(g.alivePlayerIds, LAMBDA id : id # eliminatedId)
    ELSE g.alivePlayerIds

aliveCivilians(g, alive) ==
    {p \in Range(alive) : g.role[p] = CIVILIAN}

\* outcomeOf ending the game only when the Undercover is voted out
outcomeOfIgnoresCivilianCount(g, eliminatedId) ==
    IF eliminatedId \in PlayerIds /\ g.role[eliminatedId] = UNDERCOVER
    THEN "game_over"
    ELSE "new_cycle"

\* results.outcome: game over when the Undercover is voted out or when at most
\* one Civilian is left after a Civilian is voted out; otherwise a new cycle
outcomeOf(g, eliminatedId) ==
    IF eliminatedId \notin PlayerIds THEN "new_cycle"
    ELSE IF g.role[eliminatedId] = UNDERCOVER THEN "game_over"
    ELSE IF Cardinality(aliveCivilians(g, aliveAfterVote(g, eliminatedId))) <= 1 THEN "game_over"
    ELSE "new_cycle"

\* calculateVotingResults comparing the eliminated role with CIVILIAN
calculateVotingResultsWrongRole(g, order) ==
    LET eliminatedId == eliminatedIdOf(g)
        eliminatedPlayer == IF eliminatedId \in PlayerIds THEN eliminatedId ELSE Null
        civiliansWon == eliminatedPlayer # Null /\ g.role[eliminatedPlayer] = CIVILIAN
        outcome == outcomeOf(g, eliminatedId)
        g1 == [g EXCEPT !.eliminatedPlayerId = eliminatedId,
                        !.civiliansWon = civiliansWon,
                        !.alivePlayerIds = aliveAfterVote(g, eliminatedId)]
    IN [g |-> IF outcome = "new_cycle" THEN startNewCycle(g1, order) ELSE g1,
        results |-> [eliminatedPlayer |-> eliminatedPlayer,
                     civiliansWon |-> civiliansWon,
                     outcome |-> outcome,
                     allPlayers |-> {<<p, g.role[p], g.word[p]>> : p \in PlayerIds}]]

\* calculateVotingResults: [g |-> the state after the call, results |-> what it
\* returns].  order is the shuffle startNewCycle draws if a new cycle starts.
\* allPlayers lists id, role and word of every player of the game.
calculateVotingResults(g, order) ==
    LET eliminatedId == eliminatedIdOf(g)
        eliminatedPlayer == IF eliminatedId \in PlayerIds THEN eliminatedId ELSE Null
        civiliansWon == eliminatedPlayer # Null /\ g.role[eliminatedPlayer] = UNDERCOVER
        outcome == outcomeOf(g, eliminatedId)
        g1 == [g EXCEPT !.eliminatedPlayerId = eliminatedId,
                        !.civiliansWon = civiliansWon,
                        !.alivePlayerIds = aliveAfterVote(g, eliminatedId)]
    IN [g |-> IF outcome = "new_cycle" THEN startNewCycle(g1, order) ELSE g1,
        results |-> [eliminatedPlayer |-> eliminatedPlayer,
                     civiliansWon |-> civiliansWon,
                     outcome |-> outcome,
                     allPlayers |-> {<<p, g.role[p], g.word[p]>> : p \in PlayerIds}]]

----------------------------------------------------------------------------
(* RoomManager *)

\* the sockets that create, join and leave rooms
SocketIds == HumanIds \cup {UnknownId}

\* the codes generateRoomCode comes up with
GeneratedCodes == {"ABCDEF", "GHJKLM"}

\* the room codes a client names: the generated one, the same in lower case,
\* and one that no room has
RoomCodes == GeneratedCodes \cup {"abcdef", "ZZZZZZ"}

\* the names a client gives
PlayerNames == {"ann", "Ann", "Bob", "Cy"}

\* String.prototype.toUpperCase on the room codes
toUpperCase(s) == IF s = "abcdef" THEN "ABCDEF" ELSE s

\* String.prototype.toLowerCase on the names
toLowerCase(s) ==
    CASE s = "Ann" -> "ann"
      [] s = "Bob" -> "bob"
      [] s = "Cy" -> "cy"
      [] OTHER -> s

\* Room.maxPlayers as createRoom sets it: 3 human players
maxPlayers == 3

NoRoom == [exists |-> FALSE, players |-> <<>>, hostId |-> Null]

\* rooms and playerToRoom with no entry
NoRooms == [code \in GeneratedCodes |-> NoRoom]

NoPlayers == [socketId \in SocketIds |-> Null]

\* room.players.has(socketId)
hasPlayer(room, socketId) ==
    \E i \in 1..Len(room.players) : room.players[i].id = socketId

\* rooms.get(code)
getRoom(rs, code) == IF code \in GeneratedCodes THEN rs[code] ELSE NoRoom

\* createRoom under the code generateRoomCode came up with, which no room has
createRoom(rs, p2r, code, hostSocketId, hostName) ==
    [rooms |-> [rs EXCEPT ![code] =
                    [exists |-> TRUE,
                     players |-> <<[id |-> hostSocketId, name |-> hostName]>>,
                     hostId |-> hostSocketId]],
     playerToRoom |-> [p2r EXCEPT ![hostSocketId] = code]]

\* joinRoom comparing the names as they are written
joinRoomCaseSensitive(rs, p2r, roomCode, socketId, playerName) ==
    LET code == toUpperCase(roomCode)
        room == getRoom(rs, code)
        fail(error) == [rooms |-> rs, playerToRoom |-> p2r, success |-> FALSE, error |-> error]
    IN IF ~room.exists THEN fail("Room not found")
       ELSE IF Len(room.players) >= maxPlayers THEN fail("Room is full")
       ELSE IF hasPlayer(room, socketId) THEN fail("Already in this room")
       ELSE IF \E i \in 1..Len(room.players) : room.players[i].name = playerName
       THEN fail("Name already taken in this room")
       ELSE [rooms |-> [rs EXCEPT ![code].players =
                            Append(@, [id |-> socketId, name |-> playerName])],
             playerToRoom |-> [p2r EXCEPT ![socketId] = code],
             success |-> TRUE, error |-> Null]

\* joinRoom: the result's success and error, and the two maps after the call
joinRoom(rs, p2r, roomCode, socketId, playerName) ==
    LET code == toUpperCase(roomCode)
        room == getRoom(rs, code)
        fail(error) == [rooms |-> rs, playerToRoom |-> p2r, success |-> FALSE, error |-> error]
    IN IF ~room.exists THEN fail("Room not found")
       ELSE IF Len(room.players) >= maxPlayers THEN fail("Room is full")
       ELSE IF hasPlayer(room, socketId) THEN fail("Already in this room")
       ELSE IF \E i \in 1..Len(room.players) :
                   toLowerCase(room.players[i].name) = toLowerCase(playerName)
       THEN fail("Name already taken in this room")
       ELSE [rooms |-> [rs EXCEPT ![code].players =
                            Append(@, [id |-> socketId, name |-> playerName])],
             playerToRoom |-> [p2r EXCEPT ![socketId] = code],
             success |-> TRUE, error |-> Null]

\* the players of a room without socketId, in their order
RECURSIVE withoutPlayer(_, _)
withoutPlayer(players, socketId) ==
    IF players = <<>> THEN <<>>
    ELSE IF Head(players).id = socketId THEN withoutPlayer(Tail(players), socketId)
    ELSE <<Head(players)>> \o withoutPlayer(Tail(players), socketId)

\* removePlayer: the socket leaves the room playerToRoom names; an empty room
\* is deleted, a room without its host gets its first player as host
removePlayer(rs, p2r, socketId) ==
    LET code == p2r[socketId]
        room == getRoom(rs, code)
        left == withoutPlayer(room.players, socketId)
    IN IF code = Null THEN [rooms |-> rs, playerToRoom |-> p2r]
       ELSE IF ~room.exists
       THEN [rooms |-> rs, playerToRoom |-> [p2r EXCEPT ![socketId] = Null]]
       ELSE [rooms |-> [rs EXCEPT ![code] =
                            IF left = <<>> THEN NoRoom
                            ELSE [room EXCEPT !.players = left,
                                              !.hostId = IF room.hostId = socketId
                                                         THEN left[1].id ELSE @]],
             playerToRoom |-> [p2r EXCEPT ![socketId] = Null]]

----------------------------------------------------------------------------
(* The calls made on the GameManager *)

Init ==
    /\ game = NoGame
    /\ ret = NoRet
    /\ pending = {}
    /\ unpublished = {}
    /\ messages = <<>>
    /\ rooms = NoRooms
    /\ playerToRoom = NoPlayers

\* start-game: startGame for the full room
StartGame(d) ==
    /\ ~game.exists
    /\ \E roles \in RoleDeals, order \in shuffleArray(PlayerOrder, d) :
        /\ game' = startGame(roles, order)
        /\ ret' = Ret("startGame", TRUE)
    /\ UNCHANGED serverVars

DeleteGame ==
    /\ game.exists
    /\ game' = NoGame
    /\ ret' = Ret("deleteGame", TRUE)
    /\ UNCHANGED serverVars

SubmitDescription(callers) ==
    /\ \E playerId \in callers, description \in Texts :
        LET r == submitDescription(game, playerId, description)
        IN /\ game' = r.g
           /\ ret' = Ret("submitDescription", r.ok)
    /\ UNCHANGED serverVars

AdvanceDescriptionTurn ==
    /\ game.exists
    /\ game.phase = DESCRIPTION
    /\ game' = advanceDescriptionTurn(game)
    /\ ret' = Ret("advanceDescriptionTurn", getCurrentTurnPlayerId(game') # Null)
    /\ UNCHANGED serverVars

AdvancePhase ==
    /\ game.exists
    /\ game' = advancePhase(game)
    /\ ret' = Ret("advancePhase", TRUE)
    /\ UNCHANGED serverVars

\* setPhase(roomCode, GamePhase.VOTING), the way the voting tests open a round
StartVoting ==
    /\ game.exists
    /\ game.phase = DESCRIPTION
    /\ game' = setPhase(game, VOTING)
    /\ ret' = Ret("setPhase", TRUE)
    /\ UNCHANGED serverVars

SubmitVote(callers) ==
    /\ \E playerId \in callers, voteTarget \in PlayerIds :
        LET r == submitVote(game, playerId, voteTarget)
        IN /\ game' = r.g
           /\ ret' = Ret("submitVote", r.ok)
    /\ UNCHANGED serverVars

\* calculateVotingResults as its callers run it: in the voting phase, followed
\* by setPhase(RESULTS) unless a new cycle has started
ResolveVotes(d) ==
    /\ game.exists
    /\ game.phase = VOTING
    /\ \E order \in shuffleArray(aliveAfterVote(game, eliminatedIdOf(game)), d) :
        LET r == calculateVotingResults(game, order)
        IN /\ r.results.outcome = "new_cycle" => game.cycleNumber < MaxCycle
           /\ game' = IF r.results.outcome = "new_cycle" THEN r.g ELSE setPhase(r.g, RESULTS)
           /\ ret' = [Ret("calculateVotingResults", TRUE) EXCEPT
                        !.outcome = r.results.outcome,
                        !.eliminated = r.results.eliminatedPlayer,
                        !.civiliansWon = r.results.civiliansWon,
                        !.allPlayers = r.results.allPlayers]
    /\ UNCHANGED serverVars

\* the seats a guess names
GuessedIds == {AI_PLAYER_ID}

SubmitAIGuess(callers) ==
    /\ \E playerId \in callers, guessedAIId \in GuessedIds :
        LET r == submitAIGuess(game, playerId, guessedAIId)
        IN /\ game' = r.g
           /\ ret' = Ret("submitAIGuess", r.ok)
    /\ UNCHANGED serverVars

----------------------------------------------------------------------------
(* The socket event handlers of index.ts, for the room of the game *)

\* what a handler sent: per-seat views to the seats viewTo, computed with
\* showResults, and a payload that names aiPlayer as the AI (Null: none)
Sent(op, ok, viewTo, showResults, aiPlayer) ==
    [Ret(op, ok) EXCEPT !.viewTo = viewTo, !.showResults = showResults, !.aiPlayer = aiPlayer]

\* showResultsIn counting the voting phase as a results phase
showResultsInFromVoting(g) == g.phase \in {VOTING, RESULTS, AI_GUESS, FINAL_RESULTS}

\* get-game-state: showResults as the handler derives it from the phase
showResultsIn(g) == g.phase \in {RESULTS, AI_GUESS, FINAL_RESULTS}

\* the timers scheduleAIDiscussionAttempts keeps in aiDiscussionTimeoutsByRoom
AIAttemptTimers == {"aiAttempt1", "aiAttempt2"}

\* the timers endDiscussionPhase clears: the AI's attempts and the 30 s timer
DiscussionTimers == AIAttemptTimers \cup {"discussionEnd"}

\* endDiscussionPhase: from the discussion phase to voting, the timers of the
\* discussion cleared; nothing in any other phase
endDiscussionPhase(g) ==
    IF g.exists /\ g.phase = DISCUSSION THEN setPhase(g, VOTING) ELSE g

\* advance-to-voting
OnAdvanceToVoting ==
    /\ game.exists
    /\ IF game.phase = DISCUSSION
       THEN /\ game' = endDiscussionPhase(game)
            /\ pending' = pending \ DiscussionTimers
            /\ ret' = Sent("advance-to-voting", TRUE, HumanIds, FALSE, Null)
       ELSE IF game.phase # VOTING
       THEN /\ game' = setPhase(game, VOTING)
            /\ pending' = pending
            /\ ret' = Sent("advance-to-voting", TRUE, HumanIds, FALSE, Null)
       ELSE /\ game' = game
            /\ pending' = pending
            /\ ret' = Ret("advance-to-voting", FALSE)
    /\ UNCHANGED <<unpublished, messages, rooms, playerToRoom>>

\* advance-to-ai-guess
OnAdvanceToAIGuess ==
    /\ game.exists
    /\ game' = setPhase(game, AI_GUESS)
    /\ ret' = Ret("advance-to-ai-guess", TRUE)
    /\ UNCHANGED serverVars

\* submit-ai-guess from socket playerId
OnSubmitAIGuess(callers) ==
    /\ \E playerId \in callers, guessedPlayerId \in GuessedIds :
        LET r == submitAIGuess(game, playerId, guessedPlayerId)
        IN IF ~r.ok
           THEN /\ game' = game
                /\ ret' = Ret("submit-ai-guess", FALSE)
           ELSE IF allAIGuessesSubmitted(r.g)
           THEN /\ game' = setPhase(calculateFinalResults(r.g), FINAL_RESULTS)
                /\ ret' = Sent("submit-ai-guess", TRUE, {}, FALSE, AI_PLAYER_ID)
           ELSE /\ game' = r.g
                /\ ret' = Ret("submit-ai-guess", TRUE)
    /\ UNCHANGED serverVars

\* skip-ai-guess
OnSkipAIGuess ==
    /\ game.exists
    /\ game' = setPhase(game, FINAL_RESULTS)
    /\ ret' = Sent("skip-ai-guess", TRUE, {}, FALSE, AI_PLAYER_ID)
    /\ UNCHANGED serverVars

\* get-game-state from socket playerId
OnGetGameState(callers) ==
    /\ game.exists
    /\ \E playerId \in callers :
        ret' = Sent("get-game-state", TRUE, {playerId} \cap PlayerIds, showResultsIn(game), Null)
    /\ UNCHANGED <<game, serverVars>>

\* the handlers' loop "while (nextPlayerId === AI_PLAYER_ID)" as far as it runs
\* without awaiting: an eliminated AI is stepped over
RECURSIVE skipEliminatedAI(_)
skipEliminatedAI(g) ==
    IF getCurrentTurnPlayerId(g) = AI_PLAYER_ID /\ ~isPlayerAlive(g, AI_PLAYER_ID)
    THEN skipEliminatedAI(advanceDescriptionTurn(g))
    ELSE g

\* what the submit-description loop leaves pending once the turn stands at
\* the seat `next`: the AI's generation, or the 1 s timer that opens the
\* discussion when the order is exhausted
afterTurn(next, pend) ==
    IF next = AI_PLAYER_ID THEN pend \cup {"aiDescription"}
    ELSE IF next = Null THEN pend \cup {"discussionStart"}
    ELSE pend

\* start-game for the full room: the game is created, every human gets its
\* view, and the AI is asked for its description if it holds the first turn
StartGameHandler(deals, d) ==
    /\ \E roles \in deals, order \in shuffleArray(PlayerOrder, d) :
        LET g == startGame(roles, order)
        IN /\ game' = g
           /\ pending' = IF getCurrentTurnPlayerId(g) = AI_PLAYER_ID
                         THEN pending \cup {"aiFirstDescription"}
                         ELSE pending
    /\ unpublished' = {}
    /\ ret' = Sent("start-game", TRUE, HumanIds, FALSE, Null)
    /\ UNCHANGED <<messages, rooms, playerToRoom>>

\* start-game in a room that has no session
OnStartGame(deals, d) ==
    /\ ~game.exists
    /\ StartGameHandler(deals, d)

\* start-game in a room that has a session
OnStartGameAgain(deals, d) ==
    /\ game.exists
    /\ StartGameHandler(deals, d)

\* submit-description from socket playerId
OnSubmitDescription(callers) ==
    /\ game.exists
    /\ \E playerId \in callers, description \in Texts :
        LET r == submitDescription(game, playerId, description)
            g == skipEliminatedAI(advanceDescriptionTurn(r.g))
        IN IF ~isPlayerAlive(game, playerId) \/ ~r.ok
           THEN /\ game' = game
                /\ pending' = pending
                /\ ret' = Ret("submit-description", FALSE)
           ELSE /\ game' = g
                /\ pending' = afterTurn(getCurrentTurnPlayerId(g), pending)
                /\ ret' = Ret("submit-description", TRUE)
    /\ UNCHANGED <<unpublished, messages, rooms, playerToRoom>>

\* what generateAIDescription hands back: a sentence (generated, or a fallback
\* from the pool), or a parsed response without usable content
AIContents == {"Something you drink", Null}

\* the awaited generateAIDescription settles.  kind tells the loop that awaits
\* it: the one of submit-description, the one of start-game, or the one of a
\* new cycle, which arms no timer when the order is exhausted.  The loop of
\* start-game returns without arming the timer when the session is gone.
AIDescriptionDone(contents) ==
    /\ \E kind \in {"aiDescription", "aiFirstDescription", "aiCycleDescription"} \cap pending :
        LET pend == pending \ {kind}
        IN \/ \E content \in contents :
                LET g == skipEliminatedAI(advanceDescriptionTurn(
                             submitDescription(game, AI_PLAYER_ID, content).g))
                    next == getCurrentTurnPlayerId(g)
                IN /\ game' = g
                   /\ pending' = IF \/ kind = "aiCycleDescription" /\ next = Null
                                    \/ kind = "aiFirstDescription" /\ ~g.exists
                                 THEN pend
                                 ELSE afterTurn(next, pend)
                   /\ ret' = Ret("ai-description", TRUE)
           \/ \* the promise rejects: 'AI failed to generate description'
              /\ game' = game
              /\ pending' = pend
              /\ ret' = Ret("ai-description", FALSE)
    /\ UNCHANGED <<unpublished, messages, rooms, playerToRoom>>

\* the 30 s timers that call endDiscussionPhase: the one whose handle is in
\* discussionTimersByRoom, and an earlier one whose handle was overwritten
\* there by the next discussion start
DiscussionEndTimers == {"discussionEnd", "discussionEndStale"}

\* discussionTimersByRoom.set(room, timer): the handle kept before is lost,
\* its timer stays armed
withDiscussionTimer(pend) ==
    IF "discussionEnd" \in pend
    THEN pend \cup {"discussionEndStale"}
    ELSE pend \cup {"discussionEnd"}

\* the 1 s timer set when the turn order is exhausted fires
DiscussionStart ==
    /\ "discussionStart" \in pending
    /\ game' = setPhase(game, DISCUSSION)
    /\ messages' = <<>>
    /\ pending' = withDiscussionTimer((pending \ ({"discussionStart"} \cup AIAttemptTimers))
                                          \cup {"aiAttempt1"})
    /\ ret' = Sent("discussion-start", TRUE, IF game.exists THEN HumanIds ELSE {}, FALSE, Null)
    /\ UNCHANGED <<unpublished, rooms, playerToRoom>>

\* the 30 s discussion timer fires
DiscussionEnd ==
    /\ \E timer \in DiscussionEndTimers \cap pending :
          pending' = IF game.exists /\ game.phase = DISCUSSION
                     THEN pending \ (DiscussionTimers \cup {timer})
                     ELSE pending \ {timer}
    /\ game' = endDiscussionPhase(game)
    /\ ret' = IF game.exists /\ game.phase = DISCUSSION
              THEN Sent("discussion-end", TRUE, HumanIds, FALSE, Null)
              ELSE Ret("discussion-end", FALSE)
    /\ UNCHANGED <<unpublished, messages, rooms, playerToRoom>>

\* calculateVotingResults and what the submit-vote handler does with it for
\* the state g: voting-results carries the whole GameResults, aiPlayer
\* included; then either the new cycle is announced or the phase is set to
\* results and every human gets its view with showResults
ResolveAndSend(op, g, pend, d) ==
    \E order \in shuffleArray(aliveAfterVote(g, eliminatedIdOf(g)), d) :
        LET r == calculateVotingResults(g, order)
            isNewCycle == r.results.outcome = "new_cycle"
        IN /\ isNewCycle => g.cycleNumber < EventMaxCycle
           /\ game' = IF isNewCycle THEN r.g ELSE setPhase(r.g, RESULTS)
           /\ pending' = IF isNewCycle /\ getCurrentTurnPlayerId(r.g) = AI_PLAYER_ID
                         THEN pend \cup {"aiCycleDescription"}
                         ELSE pend
           /\ unpublished' = {}
           /\ ret' = [Sent(op, TRUE,
                           IF isNewCycle THEN HumanIds \cap aliveSet(r.g) ELSE HumanIds,
                           ~isNewCycle, AI_PLAYER_ID) EXCEPT
                        !.outcome = r.results.outcome,
                        !.eliminated = r.results.eliminatedPlayer,
                        !.civiliansWon = r.results.civiliansWon,
                        !.allPlayers = r.results.allPlayers]

\* the generations of the AI's vote that can be outstanding at once: the one
\* started by the vote that completes the humans' votes, and one more started
\* by a human that votes again meanwhile
AIVoteCalls == {"aiVote", "aiVoteAgain"}

\* await generateAIVote(...) is started
withAIVote(pend) ==
    IF "aiVote" \in pend THEN pend \cup {"aiVoteAgain"} ELSE pend \cup {"aiVote"}

\* submit-vote from socket playerId
OnSubmitVote(callers, targets, d) ==
    /\ game.exists
    /\ \E playerId \in callers, voteTarget \in targets :
        LET r == submitVote(game, playerId, voteTarget)
        IN IF ~isPlayerAlive(game, playerId) \/ ~isPlayerAlive(game, voteTarget) \/ ~r.ok
           THEN /\ ret' = Ret("submit-vote", FALSE)
                /\ UNCHANGED <<game, pending, unpublished>>
           ELSE IF ~allHumanVotesSubmitted(r.g)
           THEN /\ game' = r.g
                /\ unpublished' = unpublished \cup {playerId}
                /\ ret' = Ret("submit-vote", TRUE)
                /\ UNCHANGED pending
           ELSE IF isPlayerAlive(r.g, AI_PLAYER_ID)
           THEN /\ game' = r.g
                /\ unpublished' = unpublished \cup {playerId}
                /\ pending' = withAIVote(pending)
                /\ ret' = Ret("submit-vote", TRUE)
           ELSE ResolveAndSend("submit-vote", r.g, pending, d)
    /\ UNCHANGED <<messages, rooms, playerToRoom>>

\* the ids the AI's vote can name: a human by its name (here p1), or a
\* vote_target that is no player's name and is passed on as it is
AIVoteTargets == {"p1", UnknownId}

\* the awaited generateAIVote settles
AIVoteDone(targets, d) ==
    /\ \E call \in AIVoteCalls \cap pending :
        \/ /\ game.exists
           /\ \E voteTargetId \in targets :
                ResolveAndSend("ai-vote", submitVote(game, AI_PLAYER_ID, voteTargetId).g,
                               pending \ {call}, d)
        \/ \* the promise rejects: 'AI failed to vote'; or the session is gone
           \* and calculateVotingResults returns null
           /\ pending' = pending \ {call}
           /\ ret' = Ret("ai-vote", FALSE)
           /\ UNCHANGED <<game, unpublished>>
    /\ UNCHANGED <<messages, rooms, playerToRoom>>

\* the messages a client sends: a text, or one that is empty once trimmed
MessageTexts == {"is it hot?", Empty}

\* the transcript of a discussion is explored up to this many messages
MaxMessages == 3

\* how many entries of the transcript are from the seats of senders
messageCount(list, senders) ==
    Cardinality({i \in 1..Len(list) : list[i] \in senders})

\* send-discussion-message from socket playerId: refused outside the
\* discussion phase, for a socket that is no seat and for an eliminated seat;
\* after the second and the fourth human message the AI's reply is scheduled,
\* unless an attempt was made in the last 6 s
OnSendDiscussionMessage(callers) ==
    /\ game.exists
    /\ \E playerId \in callers, message \in MessageTexts :
        IF game.phase # DISCUSSION \/ playerId \notin PlayerIds \/ ~isPlayerAlive(game, playerId)
        THEN /\ ret' = Ret("send-discussion-message", FALSE)
             /\ UNCHANGED <<pending, messages>>
        ELSE IF message = Empty
        THEN UNCHANGED <<ret, pending, messages>>
        ELSE /\ Len(messages) < MaxMessages
             /\ messages' = Append(messages, playerId)
             /\ ret' = Ret("send-discussion-message", TRUE)
             /\ \/ /\ messageCount(messages', {AI_PLAYER_ID}) < 2
                   /\ messageCount(messages', HumanIds) \in {2, 4}
                   /\ pending' = pending \cup {"aiReply"}
                \/ pending' = pending
    /\ UNCHANGED <<game, unpublished, rooms, playerToRoom>>

\* tryAIDiscussionMessage up to its await: whether it asks for a message
asksAIMessage(g, list) ==
    /\ g.exists
    /\ g.phase = DISCUSSION
    /\ isPlayerAlive(g, AI_PLAYER_ID)
    /\ messageCount(list, {AI_PLAYER_ID}) < 2

\* the generations of a discussion message explored as outstanding at once
MaxAsked == 2

\* the cycle numbers a session goes through
CycleNumbers == 1..Max(MaxCycle, EventMaxCycle)

\* an awaited generateAIDiscussionMessage: the n-th one outstanding of those
\* that tryAIDiscussionMessage started in the given cycle
aiDiscussionCall(cycle, n) == "aiDiscussion" \o ToString(cycle) \o "." \o ToString(n)

\* how many generations started in the given cycle are outstanding
askedIn(pend, cycle) ==
    Cardinality({n \in 1..MaxAsked : aiDiscussionCall(cycle, n) \in pend})

\* await generateAIDiscussionMessage(...) is started in the given cycle
withAIDiscussion(pend, cycle) ==
    IF askedIn(pend, cycle) < MaxAsked
    THEN pend \cup {aiDiscussionCall(cycle, askedIn(pend, cycle) + 1)}
    ELSE pend

\* a timer that calls tryAIDiscussionMessage fires: the first scheduled
\* attempt (which arms the second), the second, or the reply to the humans
AIAttemptTimer ==
    /\ \E kind \in (AIAttemptTimers \cup {"aiReply"}) \cap pending :
        LET pend == (pending \ {kind})
                        \cup (IF kind = "aiAttempt1" THEN {"aiAttempt2"} ELSE {})
        IN pending' = IF asksAIMessage(game, messages)
                      THEN withAIDiscussion(pend, game.cycleNumber)
                      ELSE pend
    /\ ret' = Ret("ai-discussion-attempt", asksAIMessage(game, messages))
    /\ UNCHANGED <<game, unpublished, messages, rooms, playerToRoom>>

\* acceptsAIMessage without the check made after the await
acceptsAIMessageAlways(g) == TRUE

\* tryAIDiscussionMessage after its awaits: the message is kept only if the
\* session exists and is in the discussion phase
acceptsAIMessage(g) == g.exists /\ g.phase = DISCUSSION

\* the awaited generateAIDiscussionMessage and the typing delay are over: the
\* message is added to the transcript, or dropped (empty content, a rejected
\* promise, or acceptsAIMessage false)
AIDiscussionDone ==
    /\ \E cycle \in CycleNumbers :
        /\ askedIn(pending, cycle) > 0
        /\ pending' = pending \ {aiDiscussionCall(cycle, askedIn(pending, cycle))}
    /\ \/ /\ acceptsAIMessage(game)
          /\ Len(messages) < MaxMessages + 2
          /\ messages' = Append(messages, AI_PLAYER_ID)
          /\ ret' = Ret("ai-discussion", TRUE)
       \/ /\ messages' = messages
          /\ ret' = Ret("ai-discussion", FALSE)
    /\ UNCHANGED <<game, unpublished, rooms, playerToRoom>>

----------------------------------------------------------------------------
(* The calls made on the RoomManager *)

\* create-room: createRoom under a generated code, one of codes, that no room
\* has
CreateRoomUnder(codes, hosts, names) ==
    /\ \E code \in codes, hostSocketId \in hosts, hostName \in names :
        /\ ~rooms[code].exists
        /\ LET r == createRoom(rooms, playerToRoom, code, hostSocketId, hostName)
           IN /\ rooms' = r.rooms
              /\ playerToRoom' = r.playerToRoom
        /\ ret' = Ret("createRoom", TRUE)
    /\ UNCHANGED <<game, pending, unpublished, messages>>

\* create-room when generateRoomCode comes up with the one code "ABCDEF"
CreateRoom(hosts, names) == CreateRoomUnder({"ABCDEF"}, hosts, names)

\* join-room: joinRoom, whose failure is sent back as join-error
JoinRoom(codes, sockets, names) ==
    /\ \E roomCode \in codes, socketId \in sockets, playerName \in names :
        LET r == joinRoom(rooms, playerToRoom, roomCode, socketId, playerName)
        IN /\ rooms' = r.rooms
           /\ playerToRoom' = r.playerToRoom
           /\ ret' = [Ret("joinRoom", r.success) EXCEPT !.error = r.error]
    /\ UNCHANGED <<game, pending, unpublished, messages>>

\* disconnect: removePlayer
RemovePlayer(sockets) ==
    /\ \E socketId \in sockets :
        LET r == removePlayer(rooms, playerToRoom, socketId)
        IN /\ rooms' = r.rooms
           /\ playerToRoom' = r.playerToRoom
    /\ ret' = Ret("removePlayer", TRUE)
    /\ UNCHANGED <<game, pending, unpublished, messages>>

\* the room code whose session the variable game holds
GameRoomCode == "ABCDEF"

\* RoomManager.isRoomFull
isRoomFull(rs, code) ==
    getRoom(rs, code).exists /\ Len(getRoom(rs, code).players) >= maxPlayers

\* start-game as a socket of the lobby sends it: game-error unless the room
\* exists and is full, then the game starts for the players of the room (the
\* sockets p1, p2, p3: the seats of the session)
OnStartGameInRoom(codes, deals, d) ==
    \E roomCode \in codes :
        LET code == toUpperCase(roomCode)
            room == getRoom(rooms, code)
        IN IF ~room.exists \/ ~isRoomFull(rooms, code)
           THEN /\ ret' = Ret("start-game", FALSE)
                /\ UNCHANGED <<game, serverVars>>
           ELSE /\ code = GameRoomCode
                /\ {room.players[i].id : i \in 1..Len(room.players)} = HumanIds
                /\ OnStartGame(deals, d)

----------------------------------------------------------------------------
(* Specifications *)

\* the callers whose calls Spec explores
Describers == {"p1", UnknownId}

Voters == {"p2", UnknownId}

Guessers == {"p1"}

\* every GameManager call, from a few callers
Next ==
    \/ StartGame(MaxSwap)
    \/ DeleteGame
    \/ SubmitDescription(Describers)
    \/ AdvanceDescriptionTurn
    \/ AdvancePhase
    \/ SubmitVote(Voters)
    \/ ResolveVotes(MaxSwap)
    \/ SubmitAIGuess(Guessers)

Spec == Init /\ [][Next]_vars

\* the voting rounds of a game: votes from every caller, the turn order left
\* as dealt
NextVote ==
    \/ StartGame(0)
    \/ StartVoting
    \/ SubmitVote(CallerIds)
    \/ ResolveVotes(0)

SpecVote == Init /\ [][NextVote]_vars

\* the sockets whose events SpecEvent explores
EventDescribers == {"p1"}

EventVoters == HumanIds

EventTargets == {"p1"}

EventGuessers == {"p1"}

EventViewers == {"p3"}

\* the role deals SpecEvent starts from: the Undercover is the AI, or p1
EventDeals == {roles \in RoleDeals : roles["p1"] = UNDERCOVER \/ roles[AI_PLAYER_ID] = UNDERCOVER}

\* the client events and the server's own continuations and timers
NextEvent ==
    \/ OnStartGame(EventDeals, 0)
    \/ OnSubmitDescription(EventDescribers)
    \/ AIDescriptionDone({"Something you drink"})
    \/ DiscussionStart
    \/ DiscussionEnd
    \/ OnAdvanceToVoting
    \/ OnSubmitVote(EventVoters, EventTargets, 0)
    \/ AIVoteDone(AIVoteTargets, 0)
    \/ OnAdvanceToAIGuess
    \/ OnSubmitAIGuess(EventGuessers)
    \/ OnSkipAIGuess
    \/ OnGetGameState(EventViewers)

SpecEvent == Init /\ [][NextEvent]_vars

\* the role deals SpecTurn starts from: p1 is the Undercover.  Its turn orders
\* take up to MaxSwap swaps, so the AI can hold the first turn.
TurnDeals == {roles \in RoleDeals : roles["p1"] = UNDERCOVER}

\* a game in which no client skips a phase: descriptions in turn, the
\* discussion timers, votes, and the AI's awaited generations
NextTurn ==
    \/ OnStartGame(TurnDeals, MaxSwap)
    \/ OnSubmitDescription(HumanIds)
    \/ AIDescriptionDone(AIContents)
    \/ DiscussionStart
    \/ DiscussionEnd
    \/ OnSubmitVote(EventVoters, EventTargets, 0)
    \/ AIVoteDone(AIVoteTargets, 0)

\* the event loop runs every due timer and every settled promise's
\* continuation; client events are under no obligation
FairTurn ==
    /\ WF_vars(AIDescriptionDone(AIContents))
    /\ WF_vars(DiscussionStart)
    /\ WF_vars(DiscussionEnd)
    /\ WF_vars(AIVoteDone(AIVoteTargets, 0))

SpecTurn == Init /\ [][NextTurn]_vars /\ FairTurn

\* the sockets and names SpecRoom explores: hosts write their name in lower
\* case, joiners with a capital
RoomHosts == {"p1"}

HostNames == {"ann"}

JoinNames == PlayerNames \ HostNames

RoomLeavers == {"p1", "p2"}

\* the lobby: rooms are created, joined and left
NextRoom ==
    \/ CreateRoom(RoomHosts, HostNames)
    \/ JoinRoom(RoomCodes, SocketIds, JoinNames)
    \/ RemovePlayer(RoomLeavers)

SpecRoom == Init /\ [][NextRoom]_vars

\* the sockets of SpecSession: the three that fill the room
SessionJoiners == {"p2", "p3"}

SessionJoinNames == {"Bob", "Cy"}

\* a room from its creation to the departure of its players, with the game
\* started in it
NextSession ==
    \/ CreateRoom(RoomHosts, HostNames)
    \/ JoinRoom(RoomCodes, SessionJoiners, SessionJoinNames)
    \/ OnStartGameInRoom(RoomCodes, RoleDeals, MaxSwap)
    \/ OnSubmitDescription(HumanIds)
    \/ RemovePlayer(HumanIds)

SpecSession == Init /\ [][NextSession]_vars

\* the sockets whose discussion messages SpecDelete explores
Chatters == {"p1"}

\* one game, started from the initial state, whose session is deleted
\* (GameManager.deleteGame) at any moment, also while a generation of the AI
\* is awaited or a timer is armed
NextDelete ==
    \/ ret.op = "none" /\ OnStartGame(TurnDeals, 0)
    \/ OnSubmitDescription(HumanIds)
    \/ AIDescriptionDone({"Something you drink"})
    \/ DiscussionStart
    \/ DiscussionEnd
    \/ OnSendDiscussionMessage(Chatters)
    \/ AIAttemptTimer
    \/ AIDiscussionDone
    \/ OnSubmitVote(EventVoters, EventTargets, 0)
    \/ AIVoteDone({"p1"}, 0)
    \/ DeleteGame

SpecDelete == Init /\ [][NextDelete]_vars

\* the description turns of a game, with descriptions from every seat, and
\* the voting rounds that open the next cycle
NextLoop ==
    \/ StartGame(MaxSwap)
    \/ SubmitDescription(PlayerIds)
    \/ AdvanceDescriptionTurn
    \/ StartVoting
    \/ SubmitVote(Voters)
    \/ ResolveVotes(0)

SpecLoop == Init /\ [][NextLoop]_vars

\* the seats SpecRound lets describe and the seats its votes name
RoundDescribers == {"p1", "p2"}

RoundTargets == {"p1", "p2", AI_PLAYER_ID}

RoundAITargets == {"p1", "p3"}

\* the role deals SpecRound starts from: the Undercover is p3 or the AI
RoundDeals == {roles \in RoleDeals : roles["p3"] = UNDERCOVER \/ roles[AI_PLAYER_ID] = UNDERCOVER}

\* the voting rounds of a game in which no client skips a phase, with votes
\* that eliminate a human seat or the AI and open a second cycle
NextRound ==
    \/ OnStartGame(RoundDeals, 0)
    \/ OnSubmitDescription(RoundDescribers)
    \/ AIDescriptionDone({"Something you drink"})
    \/ DiscussionStart
    \/ DiscussionEnd
    \/ OnSubmitVote(HumanIds, RoundTargets, 0)
    \/ AIVoteDone(RoundAITargets, 0)

SpecRound == Init /\ [][NextRound]_vars

\* the discussion of the first cycle: the timers that open and end it,
\* messages of a human, and the AI's attempts and awaited messages
NextTalk ==
    \/ OnStartGame(RoundDeals, 0)
    \/ OnSubmitDescription(EventDescribers)
    \/ AIDescriptionDone({"Something you drink"})
    \/ DiscussionStart
    \/ DiscussionEnd
    \/ OnSendDiscussionMessage(Chatters)
    \/ AIAttemptTimer
    \/ AIDiscussionDone

SpecTalk == Init /\ [][NextTalk]_vars

\* the seats SpecReply lets describe, and the seat its votes name
ReplyDescribers == {"p1", "p2"}

ReplyTargets == {"p1"}

\* the discussions of a game of two cycles, with the AI's scheduled attempts
\* and awaited messages, and the votes that lead from one to the next
NextReply ==
    \/ OnStartGame(RoundDeals, 0)
    \/ OnSubmitDescription(ReplyDescribers)
    \/ AIDescriptionDone({"Something you drink"})
    \/ DiscussionStart
    \/ DiscussionEnd
    \/ AIAttemptTimer
    \/ AIDiscussionDone
    \/ OnSubmitVote(HumanIds, ReplyTargets, 0)
    \/ AIVoteDone(ReplyTargets, 0)

SpecReply == Init /\ [][NextReply]_vars

\* the sockets and names SpecLobby explores
LobbyHosts == {"p1", "p2"}

LobbySockets == {"p1", "p2", "p3"}

LobbyNames == {"ann", "Bob"}

\* two rooms: sockets create, join and leave, also a socket that is in a room
\* already
NextLobby ==
    \/ CreateRoomUnder(GeneratedCodes, LobbyHosts, LobbyNames)
    \/ JoinRoom(GeneratedCodes, LobbySockets, LobbyNames)
    \/ RemovePlayer(LobbySockets)

SpecLobby == Init /\ [][NextLobby]_vars

\* one room whose host sends start-game at any moment, also while a session
\* is in progress
NextRestart ==
    \/ OnStartGame(RoundDeals, 0)
    \/ OnStartGameAgain(RoundDeals, 0)
    \/ OnSubmitDescription(RoundDescribers)
    \/ AIDescriptionDone({"Something you drink"})
    \/ DiscussionStart
    \/ DiscussionEnd

SpecRestart == Init /\ [][NextRestart]_vars

\* the socket that is not a seat of the session
Outsiders == {UnknownId}

\* one game in which the seats describe and vote, and a socket that is no
\* seat sends the other events: advance-to-voting, advance-to-ai-guess,
\* submit-ai-guess and skip-ai-guess
NextOutsider ==
    \/ OnStartGame(EventDeals, 0)
    \/ OnSubmitDescription(EventDescribers)
    \/ AIDescriptionDone({"Something you drink"})
    \/ DiscussionStart
    \/ DiscussionEnd
    \/ OnSubmitVote(EventVoters, EventTargets, 0)
    \/ AIVoteDone(AIVoteTargets, 0)
    \/ OnAdvanceToVoting
    \/ OnAdvanceToAIGuess
    \/ OnSubmitAIGuess(Outsiders)
    \/ OnSkipAIGuess

SpecOutsider == Init /\ [][NextOutsider]_vars

----------------------------------------------------------------------------
(* Properties *)

UndercoverSeats(g) == {p \in PlayerIds : g.role[p] = UNDERCOVER}

CivilianSeats(g) == {p \in PlayerIds : g.role[p] = CIVILIAN}

RolesDealt ==
    game.exists =>
        /\ Cardinality(UndercoverSeats(game)) = 1
        /\ Cardinality(CivilianSeats(game)) = 3
        /\ \A p \in PlayerIds : game.word[p] = WordOf(game.role[p])

RolesKept ==
    (game.exists /\ game'.exists) => game'.role = game.role

\* C1: in every session exactly one of the four seats is Undercover and the
\* other three are Civilian, and no call on the session changes a seat's role
C1_OneUndercoverForGood == [](RolesDealt) /\ [][RolesKept]_vars

\* a session in its second cycle on which a guess has just been recorded
C1_Witness ==
    /\ game.exists
    /\ game.cycleNumber = 2
    /\ ret.op = "submitAIGuess"
    /\ ret.ok

IsPermutationOf(order, seats) ==
    /\ Len(order) = Cardinality(seats)
    /\ Range(order) = seats

CycleJustStarted ==
    \/ ret.op = "startGame"
    \/ ret.op = "calculateVotingResults" /\ ret.outcome = "new_cycle"

\* C2: right after startGame and right after every startNewCycle the turn
\* order lists every alive seat exactly once and no eliminated seat
C2_TurnOrderIsAliveRoster ==
    (game.exists /\ CycleJustStarted) =>
        IsPermutationOf(game.descriptionTurnOrder, aliveSet(game))

\* a new cycle that has just started after a seat was eliminated
C2_Witness ==
    /\ game.exists
    /\ ret.op = "calculateVotingResults"
    /\ ret.outcome = "new_cycle"
    /\ ret.eliminated # Null
    /\ Len(game.alivePlayerIds) = 3
    /\ game.descriptionTurnIndex = 0

\* the step is the call submitVote(playerId, voteTarget)
IsSubmitVote(playerId, voteTarget) ==
    /\ game' = submitVote(game, playerId, voteTarget).g
    /\ ret' = Ret("submitVote", submitVote(game, playerId, voteTarget).ok)

\* C3: in the voting phase submitVote returns false when the voter is not
\* alive, when the target is not alive, and when the target is the voter
C3_IneligibleVoteRejected ==
    [][\A playerId \in CallerIds, voteTarget \in PlayerIds :
        (/\ game.exists
         /\ game.phase = VOTING
         /\ IsSubmitVote(playerId, voteTarget)
         /\ \/ ~isPlayerAlive(game, playerId)
            \/ ~isPlayerAlive(game, voteTarget)
            \/ voteTarget = playerId)
        => ~ret'.ok]_vars

\* the step is the call submitDescription(playerId, description)
IsSubmitDescription(playerId, description) ==
    /\ game' = submitDescription(game, playerId, description).g
    /\ ret' = Ret("submitDescription", submitDescription(game, playerId, description).ok)

\* C4: in the description phase submitDescription is accepted only from the
\* alive seat at the current turn index; from any other seat it is rejected
C4_OnlyCurrentTurnDescribes ==
    [][\A playerId \in CallerIds, description \in Texts :
        (/\ game.exists
         /\ game.phase = DESCRIPTION
         /\ IsSubmitDescription(playerId, description)
         /\ \/ playerId # getCurrentTurnPlayerId(game)
            \/ ~isPlayerAlive(game, playerId))
        => ~ret'.ok]_vars

SubmitCalls == {"submitDescription", "submitVote", "submitAIGuess"}

\* C5: a submitDescription, submitVote or submitAIGuess call that returns
\* false leaves the session exactly as it was
C5_RejectedCallChangesNothing ==
    [][(ret'.op \in SubmitCalls /\ ~ret'.ok) => game' = game]_vars

\* a vote that was rejected while the session was in the voting phase
C5_Witness ==
    /\ game.exists
    /\ game.phase = VOTING
    /\ ret.op = "submitVote"
    /\ ~ret.ok
    /\ \E p \in PlayerIds : game.hasVoted[p]

\* the seats that hold the highest vote count of results.voteCounts
TopVoted(g) ==
    {t \in PlayerIds :
        /\ voteCount(g, t) > 0
        /\ \A u \in PlayerIds : voteCount(g, u) <= voteCount(g, t)}

UniqueTopVoted(g) ==
    IF Cardinality(TopVoted(g)) = 1 THEN CHOOSE t \in TopVoted(g) : TRUE ELSE Null

\* the step is a calculateVotingResults call on a session in the voting phase
IsResolve == ret'.op = "calculateVotingResults" /\ game.exists /\ game.phase = VOTING

\* C6: calculateVotingResults eliminates a seat exactly when that seat alone
\* holds the highest vote count and the count is positive; on a tie for the
\* highest count, or without any vote, eliminatedPlayer is null
C6_EliminatedIsUniqueTop ==
    [][IsResolve => ret'.eliminated = UniqueTopVoted(game)]_vars

\* C7: when the Undercover seat is the unique top-voted seat the outcome is
\* game_over with civiliansWon true, the alive roster and the cycle number
\* stay as they were and the phase does not go back to description
C7_UndercoverVotedOut ==
    [][(/\ IsResolve
        /\ UniqueTopVoted(game) # Null
        /\ game.role[UniqueTopVoted(game)] = UNDERCOVER)
       => /\ ret'.outcome = "game_over"
          /\ ret'.civiliansWon
          /\ game'.civiliansWon
          /\ game'.alivePlayerIds = game.alivePlayerIds
          /\ game'.cycleNumber = game.cycleNumber
          /\ game'.phase # DESCRIPTION]_vars

\* the Undercover was voted out with a majority against it
C7_Witness ==
    /\ game.exists
    /\ ret.op = "calculateVotingResults"
    /\ ret.eliminated # Null
    /\ game.role[ret.eliminated] = UNDERCOVER
    /\ voteCount(game, ret.eliminated) >= 2
    /\ ret.outcome = "game_over"

CiviliansLeft(g, eliminatedId) ==
    {p \in aliveSet(g) \ {eliminatedId} : g.role[p] = CIVILIAN}

\* C8: when a Civilian seat is the unique top-voted seat and at least two
\* Civilians stay alive without it, the outcome is new_cycle with civiliansWon
\* false, that seat and no other leaves the alive roster, the phase is
\* description and the cycle number has grown by one
C8_CivilianOutNewCycle ==
    [][(/\ IsResolve
        /\ UniqueTopVoted(game) # Null
        /\ game.role[UniqueTopVoted(game)] = CIVILIAN
        /\ Cardinality(CiviliansLeft(game, UniqueTopVoted(game))) >= 2)
       => /\ ret'.outcome = "new_cycle"
          /\ ~ret'.civiliansWon
          /\ ret'.eliminated = UniqueTopVoted(game)
          /\ aliveSet(game') = aliveSet(game) \ {UniqueTopVoted(game)}
          /\ game'.phase = DESCRIPTION
          /\ game'.cycleNumber = game.cycleNumber + 1]_vars

\* the second cycle has started with three seats after an alive Civilian was
\* voted out of four
C8_Witness ==
    /\ game.exists
    /\ ret.op = "calculateVotingResults"
    /\ ret.outcome = "new_cycle"
    /\ ret.eliminated # Null
    /\ game.role[ret.eliminated] = CIVILIAN
    /\ Cardinality(aliveSet(game)) = 3
    /\ ret.eliminated \notin aliveSet(game)
    /\ game.cycleNumber = 2
    /\ game.phase = DESCRIPTION

\* C9: when a Civilian seat is eliminated and at most one Civilian stays
\* alive without it, the outcome is game_over with civiliansWon false, the
\* seat has left the alive roster and no new cycle starts
C9_CivilianOutGameOver ==
    [][(/\ IsResolve
        /\ ret'.eliminated # Null
        /\ game.role[ret'.eliminated] = CIVILIAN
        /\ Cardinality(CiviliansLeft(game, ret'.eliminated)) <= 1)
       => /\ ret'.outcome = "game_over"
          /\ ~ret'.civiliansWon
          /\ aliveSet(game') = aliveSet(game) \ {ret'.eliminated}
          /\ game'.cycleNumber = game.cycleNumber
          /\ game'.phase # DESCRIPTION]_vars

\* the game ended in the second cycle when a Civilian was voted out of three
\* seats and left one Civilian with the Undercover
C9_Witness ==
    /\ game.exists
    /\ ret.op = "calculateVotingResults"
    /\ ret.outcome = "game_over"
    /\ ~ret.civiliansWon
    /\ ret.eliminated # Null
    /\ game.role[ret.eliminated] = CIVILIAN
    /\ Cardinality(aliveSet(game)) = 2
    /\ Cardinality(UndercoverSeats(game) \cap aliveSet(game)) = 1
    /\ game.cycleNumber = 2

\* C10: when two or more seats share the highest vote count nobody is
\* eliminated, the alive roster stays as it was, the outcome is new_cycle with
\* civiliansWon false, the phase is description and the cycle number has
\* grown by one
C10_TieStartsNewCycle ==
    [][(IsResolve /\ Cardinality(TopVoted(game)) >= 2)
       => /\ ret'.eliminated = Null
          /\ game'.alivePlayerIds = game.alivePlayerIds
          /\ ret'.outcome = "new_cycle"
          /\ ~ret'.civiliansWon
          /\ game'.phase = DESCRIPTION
          /\ game'.cycleNumber = game.cycleNumber + 1]_vars

\* the step starts a new cycle
IsNewCycle == IsResolve /\ ret'.outcome = "new_cycle"

CycleOneAtStart ==
    (game.exists /\ ret.op = "startGame") => game.cycleNumber = 1

NewCycleResets ==
    IsNewCycle =>
        /\ game'.phase = DESCRIPTION
        /\ game'.descriptionTurnIndex = 0
        /\ game'.cycleNumber = game.cycleNumber + 1
        /\ \A p \in aliveSet(game') :
            /\ game'.description[p] = Empty
            /\ game'.voteTarget[p] = Empty
            /\ ~game'.hasSubmittedDescription[p]
            /\ ~game'.hasVoted[p]

\* C11: the cycle number is 1 right after startGame, and every start of a new
\* cycle sets the phase to description, the turn index to 0, the cycle number
\* one higher, and clears description, vote target, hasSubmittedDescription
\* and hasVoted of every alive seat
C11_NewCycleResets == [](CycleOneAtStart) /\ [][NewCycleResets]_vars

\* the third cycle has just started and a seat that had described and a seat
\* that had voted are among the alive seats
C11_Witness ==
    /\ game.exists
    /\ ret.op = "calculateVotingResults"
    /\ ret.outcome = "new_cycle"
    /\ game.cycleNumber = 3
    /\ {"p1", "p2"} \subseteq aliveSet(game)
    /\ ret.eliminated # Null

\* the GameStates that hold the votes, the alive roster and the roles of g and
\* differ from it in the turn order and the cycle number
SameVotesRosterRoles(g) ==
    {[g EXCEPT !.descriptionTurnOrder = order, !.cycleNumber = c] :
        order \in shuffleArray(g.alivePlayerIds, MaxSwap), c \in {1, MaxCycle}}

\* the shuffle a new cycle draws, here the turn order of g without the seat
\* that leaves
OrderDrawn(g) ==
    SelectSeq(g.descriptionTurnOrder,
              LAMBDA id : id \in Range(aliveAfterVote(g, eliminatedIdOf(g))))

C13_FinalRevealAfterAllGuesses ==
    (game.exists /\ game.phase = FINAL_RESULTS) =>
        \A h \in HumanIds : game.aiGuesses[h] # Empty

\* the views the last event delivered, one per seat of ret.viewTo
ViewSent(playerId) == getPlayerView(game, playerId, ret.showResults)

ViewsSent == game.exists /\ ret.viewTo # {}

\* C14: a view delivered before final_results marks no seat as the AI, and a
\* view delivered in final_results marks the AI seat, and only it, as the AI
C14_ViewMarksAIOnlyAtFinalReveal ==
    ViewsSent =>
        \A playerId \in ret.viewTo :
            /\ game.phase # FINAL_RESULTS =>
                \A p \in PlayerIds : ~ViewSent(playerId).players[p].isAI
            /\ game.phase = FINAL_RESULTS =>
                \A p \in PlayerIds : ViewSent(playerId).players[p].isAI <=> p = AI_PLAYER_ID

\* C15: while the phase is not final_results the last event delivered no
\* payload that names the AI seat and no view that marks a seat as the AI
C15_AIHiddenBeforeFinalReveal ==
    (game.exists /\ game.phase # FINAL_RESULTS) =>
        /\ ret.aiPlayer = Null
        /\ \A playerId \in ret.viewTo, p \in PlayerIds : ~ViewSent(playerId).players[p].isAI

\* C16: no delivered view shows the vote target of a seat whose vote has not
\* been published by a voting-results broadcast
C16_VoteTargetsHiddenUntilResults ==
    ViewsSent =>
        \A playerId \in ret.viewTo, p \in unpublished :
            ViewSent(playerId).players[p].voteTarget = Null

\* C17: a view delivered to a seat holds that seat's word, and holds the
\* seat's role only if the phase is results, ai_guess or final_results
C17_OwnWordAlwaysOwnRoleAtReveal ==
    ViewsSent =>
        \A playerId \in ret.viewTo :
            /\ ViewSent(playerId).myWord = game.word[playerId]
            /\ ViewSent(playerId).myWord = WordOf(game.role[playerId])
            /\ ViewSent(playerId).myRole # Null =>
                game.phase \in {RESULTS, AI_GUESS, FINAL_RESULTS}

\* p3 asked for the game state in the voting phase of the second cycle and
\* got a view without its role
C17_Witness ==
    /\ game.exists
    /\ ret.op = "get-game-state"
    /\ ret.viewTo = {"p3"}
    /\ game.phase = VOTING
    /\ game.cycleNumber = 2
    /\ ViewSent("p3").myRole = Null
    /\ ViewSent("p3").myWord = game.word["p3"]

\* the phase changes of the state machine; a non-terminal vote outcome leads
\* from voting straight back to description
PhaseOrder ==
    {<<DESCRIPTION, DISCUSSION>>, <<DISCUSSION, VOTING>>, <<VOTING, RESULTS>>,
     <<VOTING, DESCRIPTION>>, <<RESULTS, DESCRIPTION>>, <<RESULTS, AI_GUESS>>,
     <<AI_GUESS, FINAL_RESULTS>>}

\* C18: every change of the phase of a game follows description -> discussion
\* -> voting -> results -> ai_guess -> final_results or the loop back to
\* description on a non-terminal vote outcome
C18_PhaseOrderKept ==
    [][(game.exists /\ game'.exists /\ game'.phase # game.phase)
       => <<game.phase, game'.phase>> \in PhaseOrder]_vars

----------------------------------------------------------------------------
(* C19 *)

\* the AI's generation is awaited for its description turn
AwaitingAIDescription ==
    /\ game.exists
    /\ game.phase = DESCRIPTION
    /\ getCurrentTurnPlayerId(game) = AI_PLAYER_ID
    /\ pending \cap {"aiDescription", "aiFirstDescription", "aiCycleDescription"} # {}

\* the turn has moved past the AI, or the description phase is over
AIDescriptionTurnOver ==
    /\ game.exists
    /\ game.phase # DESCRIPTION \/ getCurrentTurnPlayerId(game) # AI_PLAYER_ID

\* the AI's generation is awaited for its vote, in a cycle that a new cycle
\* can follow
AwaitingAIVote ==
    /\ game.exists
    /\ game.phase = VOTING
    /\ game.cycleNumber < EventMaxCycle
    /\ AIVoteCalls \cap pending # {}

\* the voting phase is over: the round was resolved
VotingOver ==
    /\ game.exists
    /\ game.phase # VOTING

\* C19: whenever the AI's description or vote is awaited, the game proceeds
\* however the generation ends: the session does not stay in the description
\* phase at the AI's turn, nor in the voting phase waiting for the AI's vote.
C19_AITurnProceeds ==
    /\ AwaitingAIDescription ~> AIDescriptionTurnOver
    /\ AwaitingAIVote ~> VotingOver

----------------------------------------------------------------------------
(* C20 *)

\* the step is joinRoom(roomCode, socketId, playerName)
IsJoinRoom(roomCode, socketId, playerName) ==
    LET r == joinRoom(rooms, playerToRoom, roomCode, socketId, playerName)
    IN /\ rooms' = r.rooms
       /\ playerToRoom' = r.playerToRoom
       /\ ret' = [Ret("joinRoom", r.success) EXCEPT !.error = r.error]

\* no room has the code, whatever its case
RoomUnknown(roomCode) ==
    \A code \in GeneratedCodes : rooms[code].exists => toUpperCase(code) # toUpperCase(roomCode)

\* the room of the code holds 3 humans
RoomHoldsThree(roomCode) ==
    \E code \in GeneratedCodes :
        /\ rooms[code].exists
        /\ toUpperCase(code) = toUpperCase(roomCode)
        /\ Len(rooms[code].players) = 3

\* a player of the room of the code has the name, up to case
NameTaken(roomCode, playerName) ==
    \E code \in GeneratedCodes :
        /\ rooms[code].exists
        /\ toUpperCase(code) = toUpperCase(roomCode)
        /\ \E i \in 1..Len(rooms[code].players) :
               toLowerCase(rooms[code].players[i].name) = toLowerCase(playerName)

JoinErrors ==
    {"Room not found", "Room is full", "Already in this room", "Name already taken in this room"}

\* C20: joinRoom for an unknown room code, for a room that holds 3 humans or
\* with a name a player of the room has (up to case) returns a failure with
\* a reason, and leaves the rooms and the player-to-room map as they were.
C20_RejectedJoinChangesNothing ==
    [][\A roomCode \in RoomCodes, socketId \in SocketIds, playerName \in PlayerNames :
        (/\ IsJoinRoom(roomCode, socketId, playerName)
         /\ \/ RoomUnknown(roomCode)
            \/ RoomHoldsThree(roomCode)
            \/ NameTaken(roomCode, playerName))
        => /\ ~ret'.ok
           /\ ret'.error \in JoinErrors
           /\ UNCHANGED roomVars]_vars

\* a join was turned down for its name in a room whose only player is the
\* host "ann": the name given was "Ann"
C20_Witness ==
    /\ ret.op = "joinRoom"
    /\ ~ret.ok
    /\ ret.error = "Name already taken in this room"
    /\ \E code \in GeneratedCodes :
        /\ rooms[code].exists
        /\ Len(rooms[code].players) = 1
        /\ rooms[code].players[1].name = "ann"

----------------------------------------------------------------------------
(* C21 *)

\* the step records a description or a vote of seat p
RecordsMoveOf(p) ==
    \/ game'.description[p] # game.description[p] /\ game'.description[p] # Empty
    \/ game'.hasSubmittedDescription[p] /\ ~game.hasSubmittedDescription[p]
    \/ game'.voteTarget[p] # game.voteTarget[p] /\ game'.voteTarget[p] # Empty
    \/ game'.hasVoted[p] /\ ~game.hasVoted[p]

\* C21: once a seat is eliminated, no step of the same game records a
\* description or a vote of that seat.
C21_EliminatedSeatIsMuted ==
    [][(game.exists /\ game'.exists)
       => \A p \in PlayerIds : ~isPlayerAlive(game, p) => ~RecordsMoveOf(p)]_vars

----------------------------------------------------------------------------
(* C22 *)

\* C22: the alive roster is a subset of the four seats of the game, and no
\* step of a game puts a seat into it: a seat that has left it stays out, over
\* any number of new cycles.
C22_AliveRosterOnlyShrinks ==
    /\ [](game.exists => aliveSet(game) \subseteq PlayerIds)
    /\ [][(game.exists /\ game'.exists) => aliveSet(game') \subseteq aliveSet(game)]_vars

\* the third cycle of a game that has lost a seat
C22_Witness ==
    /\ game.exists
    /\ game.cycleNumber = 3
    /\ Cardinality(aliveSet(game)) < 4

----------------------------------------------------------------------------
(* C23 *)

\* C23: while a voting round is open, the recorded vote target of every alive
\* seat is empty or the id of an alive seat other than the voter.
C23_VoteTargetsEligible ==
    (game.exists /\ game.phase = VOTING) =>
        \A p \in aliveSet(game) :
            \/ game.voteTarget[p] = Empty
            \/ game.voteTarget[p] \in aliveSet(game) \ {p}

----------------------------------------------------------------------------
(* C24 *)

\* the sum of results.voteCounts: one per seat that holds a vote target
TotalVotes(g) == Cardinality({p \in PlayerIds : g.voteTarget[p] # Empty})

\* C24: when calculateVotingResults resolves a round in which every alive
\* seat has voted, the vote counts add up to the number of alive seats.
C24_TallyIsAliveVotes ==
    [][(IsResolve /\ \A p \in aliveSet(game) : game.hasVoted[p])
       => TotalVotes(game) = Cardinality(aliveSet(game))]_vars

----------------------------------------------------------------------------
(* C25 *)

\* C25: no session exists for a room code whose room is not in the registry.
C25_NoSessionWithoutRoom ==
    game.exists => getRoom(rooms, GameRoomCode).exists

----------------------------------------------------------------------------
(* C26 *)

\* the step is the completion of an awaited generation of the AI
IsAICompletion == ret'.op \in {"ai-description", "ai-discussion", "ai-vote"}

-----------------------------------------------------------------------------
(* C27 *)

\* C27: once the phase of a session is final_results, no step changes the
\* phase of that session again.
C27_FinalRevealIsTerminal ==
    [][(game.exists /\ game.phase = FINAL_RESULTS)
          => (game'.exists /\ game'.phase = FINAL_RESULTS)]_vars

-----------------------------------------------------------------------------
(* C28 *)

\* the seats whose role the last step disclosed to a client: the seats listed
\* with their role in a broadcast payload, and every seat when a view was sent
\* with showResults
RolesDisclosed ==
    {e[1] : e \in ret.allPlayers} \cup
    (IF ret.viewTo # {} /\ ret.showResults THEN PlayerIds ELSE {})

\* C28: while the phase is not final_results, no step discloses the roles of
\* all seats, and the step that announces a new cycle discloses the role of no
\* seat that is still alive.
C28_RolesOnlyAtFinalReveal ==
    (game.exists /\ game.phase # FINAL_RESULTS) =>
        /\ RolesDisclosed # PlayerIds
        /\ ret.outcome = "new_cycle" => RolesDisclosed \cap aliveSet(game) = {}

-----------------------------------------------------------------------------
(* C29 *)

\* the seats that hold the turns 1..k of the order
TurnSeats(g, k) == {g.descriptionTurnOrder[i] : i \in 1..k}

\* the cycle was played in turn up to here: the seats before the current turn
\* have described, the current seat has just described, the seats after it
\* have not
CurrentSeatDescribed(g) ==
    /\ g.exists
    /\ g.phase = DESCRIPTION
    /\ getCurrentTurnPlayerId(g) # Null
    /\ \A i \in 1..Len(g.descriptionTurnOrder) :
          g.hasSubmittedDescription[g.descriptionTurnOrder[i]]
              <=> i <= g.descriptionTurnIndex + 1

\* C29: when the current-turn seat has described and the turn is advanced, in
\* a cycle played in turn so far, the index moves by one, the seats that had a
\* turn are as many distinct alive seats, getDescriptionsSoFar lists as many
\* descriptions as turns were completed, in turn order, and the call returns no
\* next seat exactly when every alive seat has had its turn.
C29_TurnLoop ==
    [][(CurrentSeatDescribed(game) /\ ret'.op = "advanceDescriptionTurn") =>
          LET k == game'.descriptionTurnIndex
              soFar == getDescriptionsSoFar(game')
          IN /\ k = game.descriptionTurnIndex + 1
             /\ Cardinality(TurnSeats(game', k)) = k
             /\ TurnSeats(game', k) \subseteq aliveSet(game')
             /\ Len(soFar) = k
             /\ \A i \in 1..k : soFar[i].playerId = game'.descriptionTurnOrder[i]
             /\ ret'.ok <=> getCurrentTurnPlayerId(game') # Null
             /\ getCurrentTurnPlayerId(game') = Null
                   <=> TurnSeats(game', k) = aliveSet(game')]_vars

\* in the second cycle the turn was advanced past the last seat of the order
\* and every seat of the order has described
C29_Witness ==
    /\ game.exists
    /\ game.phase = DESCRIPTION
    /\ game.cycleNumber = 2
    /\ ret.op = "advanceDescriptionTurn"
    /\ ~ret.ok
    /\ game.descriptionTurnIndex = Len(game.descriptionTurnOrder)
    /\ Len(getDescriptionsSoFar(game)) = Len(game.descriptionTurnOrder)

-----------------------------------------------------------------------------
(* C30 *)

\* every alive seat has described in the current cycle
AllAliveDescribed(g) == \A p \in aliveSet(g) : g.hasSubmittedDescription[p]

\* C30: a step that takes the session out of the description phase finds a
\* description of every alive seat and leads to the discussion phase.
C30_DescriptionEndsWhenAllDescribed ==
    [][(game.exists /\ game.phase = DESCRIPTION /\ game'.exists /\ game'.phase # DESCRIPTION)
          => (AllAliveDescribed(game) /\ game'.phase = DISCUSSION)]_vars

-----------------------------------------------------------------------------
(* C31 *)

\* every alive seat has voted
AllAliveVoted(g) == \A p \in aliveSet(g) : g.hasVoted[p]

\* C31: the step that records the vote of the last alive seat resolves the
\* round and takes the session out of the voting phase; no step of a voting
\* phase ends in the voting phase with a vote of every alive seat.
C31_QuorumResolvesRound ==
    [][(game.exists /\ game.phase = VOTING /\ ~AllAliveVoted(game)
            /\ game'.exists /\ game'.phase = VOTING)
          => ~AllAliveVoted(game')]_vars

-----------------------------------------------------------------------------
(* C32 *)

\* the step resolves a voting round: calculateVotingResults has run and its
\* outcome was sent
IsRoundResolution == ret'.op \in {"submit-vote", "ai-vote"} /\ ret'.outcome # Null

\* C32: a voting round is resolved once: every resolution starts in the
\* voting phase, removes at most one seat from the roster and raises the
\* cycle number by at most one, and none follows while the session is in
\* another phase.
C32_RoundResolvedOnce ==
    [][IsRoundResolution =>
          /\ game.phase = VOTING
          /\ Cardinality(aliveSet(game)) - Cardinality(aliveSet(game')) <= 1
          /\ game'.cycleNumber - game.cycleNumber <= 1]_vars

-----------------------------------------------------------------------------
(* C33 *)

\* C33: a step that takes the session into the voting phase leaves every
\* alive seat with an empty vote target and hasVoted false.
C33_VotingStartsWithoutVotes ==
    [][(game.exists /\ game.phase # VOTING /\ game'.exists /\ game'.phase = VOTING)
          => \A p \in aliveSet(game') :
                game'.voteTarget[p] = Empty /\ ~game'.hasVoted[p]]_vars

-----------------------------------------------------------------------------
(* C34 *)

\* C34: at most one timer that ends the discussion is armed, and none is
\* armed once the discussion it was set for is over: outside the discussion
\* phase no such timer is pending.
C34_OneDiscussionEndTimer ==
    /\ Cardinality(pending \cap DiscussionEndTimers) <= 1
    /\ (game.exists /\ game.phase # DISCUSSION) => pending \cap DiscussionEndTimers = {}

-----------------------------------------------------------------------------
(* C35 *)

\* C35: while the phase is description, discussion or voting the Undercover
\* is alive and at least two Civilians are, which makes three or four alive
\* seats; in every phase at least two seats are alive.
C35_RosterSupportsPlay ==
    game.exists =>
        /\ Cardinality(aliveSet(game)) >= 2
        /\ game.phase \in {DESCRIPTION, DISCUSSION, VOTING} =>
              /\ UndercoverSeats(game) \subseteq aliveSet(game)
              /\ Cardinality(aliveCivilians(game, game.alivePlayerIds)) >= 2
              /\ Cardinality(aliveSet(game)) \in {3, 4}

-----------------------------------------------------------------------------
(* C36 *)

\* C36: the transcript of a discussion holds at most two messages of the AI.
C36_AIPostsAtMostTwice ==
    messageCount(messages, {AI_PLAYER_ID}) <= 2

-----------------------------------------------------------------------------
(* C37 *)

\* the step is the end of a generation that tryAIDiscussionMessage started in
\* the given cycle, and its message was added to the transcript
AIMessageAddedFrom(cycle) ==
    /\ ret'.op = "ai-discussion"
    /\ ret'.ok
    /\ askedIn(pending', cycle) < askedIn(pending, cycle)

\* C37: a message of the AI is added to the transcript only in the discussion
\* phase of the cycle in which its generation was started.
C37_AIMessageInItsOwnDiscussion ==
    [][\A cycle \in CycleNumbers :
          AIMessageAddedFrom(cycle) =>
              /\ game.exists
              /\ game.phase = DISCUSSION
              /\ game.cycleNumber = cycle]_vars

----------------------------------------------------------------------------
(* C38 *)

\* the rooms that list socketId among their players
roomsListing(socketId) ==
    {code \in GeneratedCodes : rooms[code].exists /\ hasPlayer(rooms[code], socketId)}

\* C38: after any sequence of createRoom, joinRoom and removePlayer a socket
\* is mapped to room c in playerToRoom exactly when room c exists and lists
\* it, so a socket is a member of at most one room, also when a socket that
\* is in a room creates or joins another.
C38_PlayerToRoomMatchesRooms ==
    \A socketId \in SocketIds :
        /\ \A code \in GeneratedCodes :
               playerToRoom[socketId] = code <=> code \in roomsListing(socketId)
        /\ Cardinality(roomsListing(socketId)) <= 1

----------------------------------------------------------------------------
(* C39 *)

\* a session in one of the phases in which the game is played
SessionInProgress(g) == g.exists /\ g.phase \in {DESCRIPTION, DISCUSSION, VOTING}

\* C39: a start-game for a room whose session is in progress does not
\* replace or reset that session.
C39_StartGameKeepsSession ==
    [][SessionInProgress(game) /\ ret'.op = "start-game" => game' = game]_vars

----------------------------------------------------------------------------
(* C40 *)

\* the events that, under SpecOutsider, only the socket that is no seat sends
OutsiderEvents ==
    {"advance-to-voting", "advance-to-ai-guess", "submit-ai-guess", "skip-ai-guess"}

\* C40: an event from a socket that is not a seat of the room's session never
\* changes that session's phase, descriptions, votes or guess map.
C40_OutsiderChangesNothing ==
    [][game.exists /\ ret'.op \in OutsiderEvents =>
          /\ game'.phase = game.phase
          /\ game'.description = game.description
          /\ game'.voteTarget = game.voteTarget
          /\ game'.hasVoted = game.hasVoted
          /\ game'.aiGuesses = game.aiGuesses]_vars

====
